---------------------------- MODULE Spec2Model ----------------------------
(***************************************************************************)
(* A model of rlog (src/rlog.go): the filter specifications built from the *)
(* RLOG_LOG_LEVEL / RLOG_TRACE_LEVEL strings, the merge of the config file *)
(* into the environment configuration, initialize / SetOutput, and the     *)
(* emission calls that go through basicLog.                                *)
(*                                                                         *)
(* A Go string is a sequence of one-character strings, so that Split,      *)
(* TrimSpace, ToUpper, Atoi, path.Split, filepath.Base and filepath.Match  *)
(* are computed character by character as the library computes them.       *)
(***************************************************************************)
EXTENDS Integers, Sequences, FiniteSets, TLC

VARIABLES
    \* --- a filterSpec under construction and the last query made of it
    specInput,      \* the arguments of fromString: [s, isTraceLevels, globalLevelDefault]
    spec,           \* the filterSpec: [filters |-> sequence of [Pattern, Level]]
    matchResult,    \* the last matchfilters call: [asked, filename, level, result]
    \* --- updateConfigFromFile's scan of a config file
    envConfig,      \* the rlogEnvConfig handed to updateConfigFromFile
    config,         \* the rlogEnvConfig being merged (the *config of the scan)
    prevConfig,     \* config as it was before the last line scanned
    confLines,      \* the lines of the config file
    lineNo,         \* the number of lines scanned so far (the loop's i)
    scanPc,         \* "idle" | "scanning" | "done" | "panic"
    \* --- the package's globals
    settingShowCallerInfo,
    settingDateTimeFormat,
    settingConfFile,
    logWriterStream,
    logWriterFile,
    logFilterSpec,
    traceFilterSpec,
    \* --- the process
    crashed,        \* a run-time panic has ended the process
    lastReconf,     \* the last initialize or SetOutput that returned, see Reconf
    calls           \* the emission calls in flight, one per goroutine

vars == <<specInput, spec, matchResult, envConfig, config, prevConfig, confLines, lineNo,
          scanPc, settingShowCallerInfo, settingDateTimeFormat, settingConfFile,
          logWriterStream, logWriterFile, logFilterSpec, traceFilterSpec,
          crashed, lastReconf, calls>>

filterVars == <<specInput, spec, matchResult>>
scanVars == <<envConfig, config, prevConfig, confLines, lineNo, scanPc>>
globalVars == <<settingShowCallerInfo, settingDateTimeFormat, settingConfFile,
                logWriterStream, logWriterFile, logFilterSpec, traceFilterSpec>>
processVars == <<crashed, lastReconf, calls>>

---------------------------------------------------------------------------
(* Constants of the program *)

notATrace == -1
noTraceOutput == -1

levelNone == 0
levelCrit == 1
levelErr == 2
levelWarn == 3
levelInfo == 4
levelDebug == 5
levelTrace == 6

(* levelStrings: level number -> name *)
levelStrings ==
    [l \in levelNone..levelTrace |->
        CASE l = levelTrace -> <<"T","R","A","C","E">>
          [] l = levelDebug -> <<"D","E","B","U","G">>
          [] l = levelInfo  -> <<"I","N","F","O">>
          [] l = levelWarn  -> <<"W","A","R","N">>
          [] l = levelErr   -> <<"E","R","R","O","R">>
          [] l = levelCrit  -> <<"C","R","I","T","I","C","A","L">>
          [] OTHER          -> <<"N","O","N","E">>]

(* levelNumbers: name -> (found, number); a map lookup that misses yields *)
(* the zero value and ok = false.                                         *)
levelNumbers(name) ==
    LET hits == {l \in levelNone..levelTrace : levelStrings[l] = name}
    IN  IF hits = {} THEN [ok |-> FALSE, level |-> 0]
        ELSE [ok |-> TRUE, level |-> CHOOSE l \in hits : TRUE]

---------------------------------------------------------------------------
(* The string library *)

LowerCase == <<"a","b","c","d","e","f","g","h","i","j","k","l","m",
               "n","o","p","q","r","s","t","u","v","w","x","y","z">>
UpperCase == <<"A","B","C","D","E","F","G","H","I","J","K","L","M",
               "N","O","P","Q","R","S","T","U","V","W","X","Y","Z">>
Digits == <<"0","1","2","3","4","5","6","7","8","9">>

(* unicode.ToUpper on one character *)
UpperChar(c) ==
    IF \E i \in 1..26 : LowerCase[i] = c
    THEN UpperCase[CHOOSE i \in 1..26 : LowerCase[i] = c]
    ELSE c

(* strings.ToUpper *)
ToUpper(s) == [i \in 1..Len(s) |-> UpperChar(s[i])]

(* The index of the first sep in s, 0 when there is none *)
IndexOf(s, sep) ==
    IF \E i \in 1..Len(s) : s[i] = sep
    THEN CHOOSE i \in 1..Len(s) : s[i] = sep /\ \A j \in 1..(i-1) : s[j] # sep
    ELSE 0

(* strings.SplitN(s, sep, n) for n >= 1: at most n substrings, the last *)
(* one the unsplit remainder.                                           *)
RECURSIVE SplitN(_, _, _)
SplitN(s, sep, n) ==
    LET i == IndexOf(s, sep)
    IN  IF n = 1 \/ i = 0 THEN <<s>>
        ELSE <<SubSeq(s, 1, i-1)>> \o SplitN(SubSeq(s, i+1, Len(s)), sep, n-1)

(* strings.Split(s, sep): all the substrings; Split("", sep) is [""] *)
Split(s, sep) == SplitN(s, sep, Len(s) + 1)

IsSpace(c) == c \in {" ", "\t"}

(* strings.TrimSpace *)
TrimSpace(s) ==
    IF \A i \in 1..Len(s) : IsSpace(s[i]) THEN <<>>
    ELSE LET first == CHOOSE i \in 1..Len(s) :
                          ~IsSpace(s[i]) /\ \A j \in 1..(i-1) : IsSpace(s[j])
             last  == CHOOSE i \in 1..Len(s) :
                          ~IsSpace(s[i]) /\ \A j \in (i+1)..Len(s) : IsSpace(s[j])
         IN  SubSeq(s, first, last)

DigitValue(c) == (CHOOSE i \in 1..10 : Digits[i] = c) - 1
IsDigit(c) == \E i \in 1..10 : Digits[i] = c

RECURSIVE DecimalValue(_)
DecimalValue(ds) ==
    IF ds = <<>> THEN 0
    ELSE 10 * DecimalValue(SubSeq(ds, 1, Len(ds)-1)) + DigitValue(ds[Len(ds)])

(* strconv.Atoi: an optional sign followed by at least one decimal digit; *)
(* anything else is an error.                                             *)
Atoi(s) ==
    LET signed == Len(s) > 0 /\ s[1] \in {"+", "-"}
        ds     == IF signed THEN Tail(s) ELSE s
        ok     == Len(ds) > 0 /\ \A i \in 1..Len(ds) : IsDigit(ds[i])
    IN  IF ~ok THEN [ok |-> FALSE, value |-> 0]
        ELSE [ok |-> TRUE,
              value |-> IF signed /\ s[1] = "-" THEN 0 - DecimalValue(ds)
                        ELSE DecimalValue(ds)]

(* The index of the last sep in s, 0 when there is none *)
LastIndexOf(s, sep) ==
    IF \E i \in 1..Len(s) : s[i] = sep
    THEN CHOOSE i \in 1..Len(s) : s[i] = sep /\ \A j \in (i+1)..Len(s) : s[j] # sep
    ELSE 0

(* path.Split: the split right after the final slash: <<dir, file>> *)
PathSplit(p) ==
    LET i == LastIndexOf(p, "/")
    IN  <<SubSeq(p, 1, i), SubSeq(p, i+1, Len(p))>>

RECURSIVE StripTrailingSlashes(_)
StripTrailingSlashes(p) ==
    IF Len(p) > 0 /\ p[Len(p)] = "/"
    THEN StripTrailingSlashes(SubSeq(p, 1, Len(p)-1))
    ELSE p

(* filepath.Base (Unix): "" is ".", trailing slashes are dropped, the last *)
(* element is kept, and a path of slashes only is "/".                     *)
Base(p) ==
    IF p = <<>> THEN <<".">>
    ELSE LET q == StripTrailingSlashes(p)
             r == SubSeq(q, LastIndexOf(q, "/") + 1, Len(q))
         IN  IF r = <<>> THEN <<"/">> ELSE r

(* filepath.Match for patterns of literals, '?' and '*' (neither matches a *)
(* separator); the error of a malformed pattern is dropped by the caller   *)
(* and leaves the result false.                                            *)
RECURSIVE Match(_, _)
Match(pattern, name) ==
    IF pattern = <<>> THEN name = <<>>
    ELSE IF pattern[1] = "*"
    THEN \E k \in 0..Len(name) :
            /\ \A j \in 1..k : name[j] # "/"
            /\ Match(Tail(pattern), SubSeq(name, k+1, Len(name)))
    ELSE IF pattern[1] = "?"
    THEN name # <<>> /\ name[1] # "/" /\ Match(Tail(pattern), Tail(name))
    ELSE name # <<>> /\ name[1] = pattern[1] /\ Match(Tail(pattern), Tail(name))

---------------------------------------------------------------------------
(* filter and filterSpec *)

(* filter.match with the pattern tested against the whole name handed in, *)
(* the directory included.                                                *)
match_WholeName(f, filename, level) ==
    LET m == IF f.Pattern # <<>> THEN Match(f.Pattern, filename) ELSE TRUE
    IN  IF m THEN [matched |-> TRUE, loggit |-> level <= f.Level]
        ELSE [matched |-> FALSE, loggit |-> FALSE]

(* filter.match: whether the file name matched, and whether to log *)
match(f, filename, level) ==
    LET m == IF f.Pattern # <<>> THEN Match(f.Pattern, Base(filename)) ELSE TRUE
    IN  IF m THEN [matched |-> TRUE, loggit |-> level <= f.Level]
        ELSE [matched |-> FALSE, loggit |-> FALSE]

(* matchfilters answering with the first filter that both matches and *)
(* passes the level test.                                             *)
matchfilters_FirstPassing(sp, filename, level) ==
    \E i \in 1..Len(sp.filters) :
        LET r == match(sp.filters[i], filename, level)
        IN  r.matched /\ r.loggit

(* matchfilters: false for an empty filter list; otherwise the loggit of *)
(* the first filter that matched, false when none did.                   *)
matchfilters(sp, filename, level) ==
    IF Len(sp.filters) = 0 THEN FALSE
    ELSE LET hits == {i \in 1..Len(sp.filters) :
                          match(sp.filters[i], filename, level).matched}
         IN  IF hits = {} THEN FALSE
             ELSE LET first == CHOOSE i \in hits : \A j \in hits : i <= j
                  IN  match(sp.filters[first], filename, level).loggit

(* The level parse of fromString with TRACE accepted as a log level name *)
parseLevel_TraceAllowed(levelToken, isTraceLevels) ==
    IF isTraceLevels
    THEN LET a == Atoi(levelToken) IN [ok |-> a.ok, level |-> a.value]
    ELSE levelNumbers(ToUpper(levelToken))

(* fromString, the level token: a number on the trace axis; on the log *)
(* axis the upper-cased name of a level other than TRACE.              *)
parseLevel(levelToken, isTraceLevels) ==
    IF isTraceLevels
    THEN LET a == Atoi(levelToken) IN [ok |-> a.ok, level |-> a.value]
    ELSE LET n == levelNumbers(ToUpper(levelToken))
         IN  IF ~n.ok \/ n.level = levelTrace
             THEN [ok |-> FALSE, level |-> n.level]
             ELSE n

(* storeLevel with the global filter appended where its token stands *)
storeLevel_GlobalInPlace(acc, matchToken, filterLevel) ==
    [acc EXCEPT !.globalLevel = IF matchToken = <<>> THEN filterLevel ELSE @,
                !.filters = Append(@, [Pattern |-> matchToken,
                                       Level |-> filterLevel])]

(* fromString, the end of the loop body: a global level is remembered, a *)
(* patterned filter is appended.                                         *)
storeLevel(acc, matchToken, filterLevel) ==
    IF matchToken = <<>>
    THEN [acc EXCEPT !.globalLevel = filterLevel]
    ELSE [acc EXCEPT !.filters = Append(@, [Pattern |-> matchToken,
                                            Level |-> filterLevel])]

(* fromString, one pass of the loop over the comma-separated fields; acc *)
(* is [filters, globalLevel].                                            *)
fromStringField(acc, f, isTraceLevels) ==
    LET tokens == Split(f, "=")
    IN  IF Len(tokens) \notin {1, 2} THEN acc
        ELSE LET matchToken == IF Len(tokens) = 1 THEN <<>> ELSE tokens[1]
                 levelToken == IF Len(tokens) = 1 THEN tokens[1] ELSE tokens[2]
                 parsed     == parseLevel(levelToken, isTraceLevels)
             IN  IF ~parsed.ok THEN acc
                 ELSE storeLevel(acc, matchToken, parsed.level)

RECURSIVE fromStringLoop(_, _, _)
fromStringLoop(acc, fields, isTraceLevels) ==
    IF fields = <<>> THEN acc
    ELSE fromStringLoop(fromStringField(acc, Head(fields), isTraceLevels),
                        Tail(fields), isTraceLevels)

(* appendGlobal with the global filter stored whatever its level *)
appendGlobal_Always(acc, isTraceLevels) ==
    Append(acc.filters, [Pattern |-> <<>>, Level |-> acc.globalLevel])

(* fromString, after the loop: the global filter goes last; on the trace *)
(* axis a global level of noTraceOutput is not stored.                   *)
appendGlobal(acc, isTraceLevels) ==
    IF ~isTraceLevels \/ acc.globalLevel # noTraceOutput
    THEN Append(acc.filters, [Pattern |-> <<>>, Level |-> acc.globalLevel])
    ELSE acc.filters

(* filterSpec.fromString on the filterSpec sp *)
fromString(sp, s, isTraceLevels, globalLevelDefault) ==
    LET acc == fromStringLoop([filters |-> sp.filters,
                               globalLevel |-> globalLevelDefault],
                              Split(s, ","), isTraceLevels)
    IN  [filters |-> appendGlobal(acc, isTraceLevels)]

(* new(filterSpec) *)
newFilterSpec == [filters |-> <<>>]

---------------------------------------------------------------------------
(* Bounds and the inputs drawn *)

MaxFields == 3      \* comma-separated fields in a level string
MaxDepth == 6       \* the highest level or trace depth asked of a filterSpec

(* The fields a RLOG_LOG_LEVEL string is made of *)
LogFields ==
    { <<"w","a","r","n">>,                          \* global, lower case
      <<"T","r","a","c","e">>,                      \* global TRACE
      <<"a",".","g","=","E","R","R","O","R">>,
      <<"a","*","=","D","E","B","U","G">>,
      <<"=","N","O","N","E">>,                      \* empty pattern part
      <<"b",".","g","=","T","R","A","C","E">>,      \* patterned TRACE
      <<>>,                                         \* empty: no level name
      <<"a",".","g","=","I","N","F","O","=">> }     \* three tokens

(* The fields a RLOG_TRACE_LEVEL string is made of *)
TraceFields ==
    { <<"3">>,
      <<"-","1">>,
      <<"a",".","g","=","1">>,
      <<"a","*","=","2">>,
      <<"=","0">>,                                  \* empty pattern part
      <<"b",".","g","=","-","1">>,
      <<"x">>,                                      \* not a number
      <<>>,                                         \* empty
      <<"a",".","g","=","2","=">> }                 \* three tokens

(* strings.Join(fields, ",") *)
RECURSIVE Join(_)
Join(fields) ==
    IF Len(fields) = 0 THEN <<>>
    ELSE IF Len(fields) = 1 THEN fields[1]
    ELSE fields[1] \o <<",">> \o Join(Tail(fields))

LevelStrings(fieldSet) ==
    {Join(fs) : fs \in UNION {[1..n -> fieldSet] : n \in 1..MaxFields}}

(* The module-and-file names basicLog hands to matchfilters *)
FileNames ==
    { <<"m","/","a",".","g">>, <<"n","/","a",".","g">>, <<"m","/","b",".","g">> }

(* The defaults fromString is called with: initialize passes noTraceOutput *)
(* for the trace axis and levelInfo for the log axis.                      *)
Defaults(isTraceLevels) ==
    IF isTraceLevels THEN {noTraceOutput, 2} ELSE {levelInfo}

FromStringInputs ==
    {[s |-> s, isTraceLevels |-> TRUE, globalLevelDefault |-> d, built |-> FALSE] :
        s \in LevelStrings(TraceFields), d \in Defaults(TRUE)}
    \cup
    {[s |-> s, isTraceLevels |-> FALSE, globalLevelDefault |-> d, built |-> FALSE] :
        s \in LevelStrings(LogFields), d \in Defaults(FALSE)}

---------------------------------------------------------------------------
(* A filterSpec built from a string and queried *)

NoMatchResult == [asked |-> FALSE, filename |-> <<>>, level |-> 0, result |-> FALSE]

(* spec := new(filterSpec); spec.fromString(s, isTraceLevels, default) *)
BuildFilterSpec ==
    /\ ~specInput.built
    /\ spec' = fromString(newFilterSpec, specInput.s, specInput.isTraceLevels,
                          specInput.globalLevelDefault)
    /\ specInput' = [specInput EXCEPT !.built = TRUE]
    /\ UNCHANGED <<matchResult, scanVars, globalVars, processVars>>

(* spec.matchfilters(filename, level) *)
QueryFilterSpec ==
    /\ specInput.built
    /\ ~matchResult.asked
    /\ \E filename \in FileNames, level \in -2..MaxDepth :
          matchResult' = [asked |-> TRUE, filename |-> filename, level |-> level,
                          result |-> matchfilters(spec, filename, level)]
    /\ UNCHANGED <<specInput, spec, scanVars, globalVars, processVars>>

---------------------------------------------------------------------------
(* The merge of the config file into the environment configuration *)

(* The fields of rlogEnvConfig *)
ConfigFields == {"logLevel", "traceLevel", "logTimeFormat", "logFile",
                 "confFile", "logStream", "logNoTime", "showCallerInfo"}

(* The setting name of each field, as the switch of updateConfigFromFile *)
(* spells it.                                                            *)
SettingName ==
    [f \in ConfigFields |->
        CASE f = "logLevel"       -> <<"R","L","O","G","_","L","O","G","_","L","E","V","E","L">>
          [] f = "traceLevel"     -> <<"R","L","O","G","_","T","R","A","C","E","_","L","E","V","E","L">>
          [] f = "logTimeFormat"  -> <<"R","L","O","G","_","T","I","M","E","_","F","O","R","M","A","T">>
          [] f = "logFile"        -> <<"R","L","O","G","_","L","O","G","_","F","I","L","E">>
          [] f = "confFile"       -> <<"R","L","O","G","_","C","O","N","F","_","F","I","L","E">>
          [] f = "logStream"      -> <<"R","L","O","G","_","L","O","G","_","S","T","R","E","A","M">>
          [] f = "logNoTime"      -> <<"R","L","O","G","_","L","O","G","_","N","O","T","I","M","E">>
          [] OTHER                -> <<"R","L","O","G","_","C","A","L","L","E","R","_","I","N","F","O">>]

(* updateIfNeeded with the old value kept whenever there is one *)
updateIfNeeded_NoPriority(oldVal, newVal, priority) ==
    IF oldVal = <<>> THEN newVal ELSE oldVal

(* updateIfNeeded: the new value when it has priority or nothing is set *)
updateIfNeeded(oldVal, newVal, priority) ==
    IF priority \/ oldVal = <<>> THEN newVal ELSE oldVal

(* The switch over the setting name: RLOG_CONF_FILE is refused, *)
(* RLOG_LOG_STREAM is upper-cased, an unknown name changes nothing.    *)
applySetting(cfg, name, val, priority) ==
    IF \E f \in ConfigFields : SettingName[f] = name
    THEN LET f == CHOOSE f \in ConfigFields : SettingName[f] = name
         IN  IF f = "confFile" THEN cfg
             ELSE IF f = "logStream"
             THEN [cfg EXCEPT ![f] = updateIfNeeded(@, ToUpper(val), priority)]
             ELSE [cfg EXCEPT ![f] = updateIfNeeded(@, val, priority)]
    ELSE cfg

(* updateConfigFromFile, one pass of the loop over the lines: a blank or *)
(* malformed line is skipped; name[0] of an empty name is an index out   *)
(* of range, a run-time panic.                                           *)
scanLine(cfg, text) ==
    LET line   == TrimSpace(text)
        tokens == SplitN(line, "=", 2)
    IN  IF line = <<>> \/ Len(tokens) # 2
        THEN [panic |-> FALSE, config |-> cfg]
        ELSE LET name0    == TrimSpace(tokens[1])
                 val      == TrimSpace(tokens[2])
             IN  IF name0 = <<>>
                 THEN [panic |-> TRUE, config |-> cfg]
                 ELSE LET priority == name0[1] = "!"
                          name     == IF priority THEN Tail(name0) ELSE name0
                      IN  [panic |-> FALSE,
                           config |-> applySetting(cfg, name, val, priority)]

(* updateConfigFromFile as a whole: a file that does not open leaves the *)
(* configuration alone; a panic ends the scan.                           *)
RECURSIVE scanLines(_, _)
scanLines(r, lines) ==
    IF r.panic \/ lines = <<>> THEN r
    ELSE scanLines(scanLine(r.config, Head(lines)), Tail(lines))

updateConfigFromFile(cfg, file) ==
    IF ~file.opens THEN [panic |-> FALSE, config |-> cfg]
    ELSE scanLines([panic |-> FALSE, config |-> cfg], file.lines)

---------------------------------------------------------------------------
(* The config files and environments drawn *)

MaxLines == 2       \* lines in a config file

(* The lines a config file is made of: for each setting a plain line and *)
(* a line marked with '!', and lines that are blank, malformed or name   *)
(* no setting.                                                           *)
ConfigLines ==
    {
      <<"R","L","O","G","_","L","O","G","_","L","E","V","E","L","=","I","N","F","O">>,
      <<"!","R","L","O","G","_","L","O","G","_","L","E","V","E","L","=","I","N","F","O">>,
      <<"R","L","O","G","_","T","R","A","C","E","_","L","E","V","E","L","=","2">>,
      <<"!","R","L","O","G","_","T","R","A","C","E","_","L","E","V","E","L","=","3">>,
      <<"R","L","O","G","_","T","I","M","E","_","F","O","R","M","A","T","=","K","i","t","c","h","e","n">>,
      <<"!","R","L","O","G","_","T","I","M","E","_","F","O","R","M","A","T","=","x","=","y">>,
      <<"R","L","O","G","_","L","O","G","_","F","I","L","E","=","/","p">>,
      <<"!","R","L","O","G","_","L","O","G","_","F","I","L","E","=","/","q">>,
      <<"R","L","O","G","_","C","O","N","F","_","F","I","L","E","=","/","d">>,
      <<"!","R","L","O","G","_","C","O","N","F","_","F","I","L","E","=","/","f">>,
      <<"R","L","O","G","_","L","O","G","_","S","T","R","E","A","M","=","s","t","d","e","r","r">>,
      <<"!","R","L","O","G","_","L","O","G","_","S","T","R","E","A","M","=","n","o","n","e">>,
      <<"R","L","O","G","_","L","O","G","_","N","O","T","I","M","E","=","y","e","s">>,
      <<"!","R","L","O","G","_","L","O","G","_","N","O","T","I","M","E","=","1">>,
      <<"R","L","O","G","_","C","A","L","L","E","R","_","I","N","F","O","=","y">>,
      <<"!","R","L","O","G","_","C","A","L","L","E","R","_","I","N","F","O","=","t","r","u","e">>,
      <<"R","L","O","G","_","L","O","G","_","L","E","V","E","L","=","W","A","R","N">>,   \* a second value for one field
      <<" ","R","L","O","G","_","T","R","A","C","E","_","L","E","V","E","L"," ","="," ","5"," ">>,   \* blanks around name and value
      <<>>,   \* empty line
      <<" "," ">>,   \* blank line
      <<"g","a","r","b","a","g","e">>,   \* no '='
      <<"!">>,   \* no '=', only the marker
      <<"N","O","P","E","=","x">>,   \* unknown setting name
      <<"!","N","O","P","E","=","x">>,   \* unknown setting name, marked
      <<"L","O","G","_","L","E","V","E","L","=","I","N","F","O">>,   \* a name without the RLOG_ prefix
      <<"!","L","O","G","_","L","E","V","E","L","=","I","N","F","O">>,   \* the same, marked
      <<"!","=","x">>,   \* the marker alone as name
      <<"=","x">>,   \* empty setting name
      <<" ","="," ","x">> }   \* blank setting name

(* A config file: whether it opens, and its lines *)
ConfigFiles ==
    {[opens |-> FALSE, lines |-> <<>>]}
    \cup
    {[opens |-> TRUE, lines |-> ls] :
        ls \in UNION {[1..n -> ConfigLines] : n \in 0..MaxLines}}

(* The environment: nothing set, everything set, and two mixtures *)
EnvNothing ==
    [logLevel |-> <<>>,
         traceLevel |-> <<>>,
         logTimeFormat |-> <<>>,
         logFile |-> <<>>,
         confFile |-> <<>>,
         logStream |-> <<>>,
         logNoTime |-> <<>>,
         showCallerInfo |-> <<>>]

EnvEverything ==
    [logLevel |-> <<"D","E","B","U","G">>,
         traceLevel |-> <<"1">>,
         logTimeFormat |-> <<"A","N","S","I","C">>,
         logFile |-> <<"/","e">>,
         confFile |-> <<"/","c">>,
         logStream |-> <<"S","T","D","O","U","T">>,
         logNoTime |-> <<"n","o">>,
         showCallerInfo |-> <<"n","o">>]

EnvLevels ==
    [logLevel |-> <<"D","E","B","U","G">>,
         traceLevel |-> <<"1">>,
         logTimeFormat |-> <<>>,
         logFile |-> <<>>,
         confFile |-> <<>>,
         logStream |-> <<>>,
         logNoTime |-> <<"n","o">>,
         showCallerInfo |-> <<>>]

EnvOutput ==
    [logLevel |-> <<>>,
         traceLevel |-> <<>>,
         logTimeFormat |-> <<"A","N","S","I","C">>,
         logFile |-> <<"/","e">>,
         confFile |-> <<"/","c">>,
         logStream |-> <<"S","T","D","O","U","T">>,
         logNoTime |-> <<>>,
         showCallerInfo |-> <<"n","o">>]

EnvConfigs == {EnvNothing, EnvEverything, EnvLevels, EnvOutput}

---------------------------------------------------------------------------
(* updateConfigFromFile, line by line *)

(* os.Open(settingConfFile): an error returns at once *)
ScanOpen ==
    /\ scanPc = "idle"
    /\ scanPc' = IF confLines.opens THEN "scanning" ELSE "done"
    /\ UNCHANGED <<envConfig, config, prevConfig, confLines, lineNo,
                   filterVars, globalVars, processVars>>

(* scanner.Scan() returned a line: one pass of the loop *)
ScanLine ==
    /\ scanPc = "scanning"
    /\ lineNo < Len(confLines.lines)
    /\ LET r == scanLine(config, confLines.lines[lineNo + 1])
       IN  /\ lineNo' = lineNo + 1
           /\ config' = r.config
           /\ prevConfig' = config
           /\ scanPc' = IF r.panic THEN "panic" ELSE "scanning"
    /\ UNCHANGED <<envConfig, confLines, filterVars, globalVars, processVars>>

(* scanner.Scan() returned false: the function returns *)
ScanEnd ==
    /\ scanPc = "scanning"
    /\ lineNo = Len(confLines.lines)
    /\ scanPc' = "done"
    /\ UNCHANGED <<envConfig, config, prevConfig, confLines, lineNo,
                   filterVars, globalVars, processVars>>

---------------------------------------------------------------------------
(* initialize: the configuration compiled into the globals *)

(* isTrueBoolString: Y or YES, or what strconv.ParseBool reads as true, *)
(* after upper-casing.                                                  *)
isTrueBoolString(str) ==
    ToUpper(str) \in { <<"Y">>, <<"Y","E","S">>, <<"1">>, <<"T">>,
                        <<"T","R","U","E">> }

(* The layouts of package time that RLOG_TIME_FORMAT may name; a layout *)
(* is written here as one element holding the name of its constant.     *)
NamedLayouts ==
    { <<"A","N","S","I","C">>,
      <<"U","N","I","X","D","A","T","E">>,
      <<"R","U","B","Y","D","A","T","E">>,
      <<"R","F","C","8","2","2">>, <<"R","F","C","8","2","2","Z">>,
      <<"R","F","C","1","1","2","3">>, <<"R","F","C","1","1","2","3","Z">>,
      <<"R","F","C","3","3","3","9">>, <<"R","F","C","3","3","3","9","N","A","N","O">>,
      <<"K","I","T","C","H","E","N">> }

(* The date/time format: empty when RLOG_LOG_NOTIME is true; otherwise   *)
(* the named layout, the literal given, or RFC3339, followed by a blank. *)
dateTimeFormat(cfg) ==
    IF isTrueBoolString(cfg.logNoTime) THEN <<>>
    ELSE LET up == ToUpper(cfg.logTimeFormat)
             f  == IF up \in NamedLayouts THEN <<"time.">> \o up
                   ELSE IF cfg.logTimeFormat # <<>> THEN cfg.logTimeFormat
                   ELSE <<"time.">> \o <<"R","F","C","3","3","3","9">>
         IN  f \o <<" ">>

(* The stream writer: os.Stdout for STDOUT, none for NONE, else os.Stderr *)
selectStream(cfg) ==
    IF cfg.logStream = <<"S","T","D","O","U","T">> THEN "os.Stdout"
    ELSE IF cfg.logStream = <<"N","O","N","E">> THEN "nil"
    ELSE "os.Stderr"

(* The file writer: none when no log file is named; the opened file when *)
(* it opens; when it does not, logWriterFile is not assigned.            *)
openLogFile(cfg, opens, oldWriterFile) ==
    IF cfg.logFile = <<>> THEN <<>>
    ELSE IF opens THEN cfg.logFile
    ELSE oldWriterFile

(* The config file name: the one given or /etc/rlog/<executable>.conf *)
confFileName(cfg) ==
    IF cfg.confFile = <<>> THEN <<"/","e","t","c","/","r","l","o","g","/","x",".","c","o","n","f">>
    ELSE cfg.confFile

---------------------------------------------------------------------------
(* basicLog *)

(* The module and file name of the caller: the last two elements of the *)
(* path runtime.Caller reports.                                         *)
moduleAndFileName(fullFilePath) ==
    LET dirPath  == PathSplit(fullFilePath)[1]
        fileName == PathSplit(fullFilePath)[2]
        moduleName ==
            IF dirPath # <<>>
            THEN PathSplit(SubSeq(dirPath, 1, Len(dirPath) - 1))[2]
            ELSE <<>>
    IN  moduleName \o <<"/">> \o fileName

(* basicLog's test with the trace filters consulted for every call *)
allowLog_TraceAxisOnly(logLevel, traceLevel, name, logSpec, traceSpec) ==
    matchfilters(traceSpec, name, traceLevel)

(* basicLog's test: the log filters when the call is not a trace, the *)
(* trace filters otherwise.                                           *)
allowLog(logLevel, traceLevel, name, logSpec, traceSpec) ==
    IF traceLevel = notATrace
    THEN matchfilters(logSpec, name, logLevel)
    ELSE matchfilters(traceSpec, name, traceLevel)

---------------------------------------------------------------------------
(* The program: initialize, SetOutput and the emission calls *)

MaxCalls == 2        \* goroutines that emit
MaxTraceDepth == 1   \* the deepest trace level a call passes

Goroutines == 1..MaxCalls

(* The writers handed to SetOutput *)
Writers == {"w1", "w2"}

(* The source files of the callers, as runtime.Caller reports them *)
CallerPaths ==
    { <<"/","r","/","m","/","a",".","g">>,
      <<"/","r","/","n","/","a",".","g">> }

(* The levels the calls are made at: those of Warn and Debug *)
CallLevels == {levelWarn, levelDebug}

(* The environments initialize is called with *)
EnvUnset ==
    [logLevel |-> <<>>,
         traceLevel |-> <<>>,
         logTimeFormat |-> <<>>,
         logFile |-> <<>>,
         confFile |-> <<>>,
         logStream |-> <<>>,
         logNoTime |-> <<>>,
         showCallerInfo |-> <<>>]

EnvPatterns ==
    [logLevel |-> <<"m","/","a",".","g","=","D","E","B","U","G",",","a",".","g","=","E","R","R","O","R">>,
         traceLevel |-> <<"a",".","g","=","1">>,
         logTimeFormat |-> <<>>,
         logFile |-> <<"/","p">>,
         confFile |-> <<>>,
         logStream |-> <<"S","T","D","O","U","T">>,
         logNoTime |-> <<>>,
         showCallerInfo |-> <<"y">>]

MainEnvConfigs == {EnvUnset, EnvPatterns}

(* The config files initialize finds *)
MainConfigFiles ==
    { [opens |-> FALSE, lines |-> <<>>],
      [opens |-> TRUE,
       lines |-> << <<"!","R","L","O","G","_","L","O","G","_","F","I","L","E","=","/","q">>,
                    <<"R","L","O","G","_","T","R","A","C","E","_","L","E","V","E","L","=","0">> >>],
      [opens |-> TRUE, lines |-> << <<"!","R","L","O","G","_","T","R","A","C","E","_","L","E","V","E","L","=","-","1",",","x">> >>],
      [opens |-> TRUE, lines |-> << <<"=","x">> >>] }

IdleCall ==
    [pc |-> "idle", logLevel |-> 0, traceLevel |-> notATrace, path |-> <<>>,
     allowLog |-> FALSE, wroteStream |-> "nil", wroteFile |-> <<>>,
     stale |-> FALSE]

(* The settings SetOutput is to leave alone *)
KeptSettings ==
    <<logFilterSpec, traceFilterSpec, settingDateTimeFormat, settingShowCallerInfo>>

(* lastReconf, the record of the last initialize or SetOutput that      *)
(* returned: op is "none" before init() has run; writer is SetOutput's   *)
(* argument; traceLevel is the trace level string initialize compiled;   *)
(* openFailed says that initialize had a log file to open and could not; *)
(* kept holds KeptSettings as SetOutput found them (as initialize left   *)
(* them); after holds the globals as the operation left them.            *)

(* A reconfiguration: the calls in flight have now seen one, and what is *)
(* kept of the calls that returned under the old settings is dropped.    *)
Reconfigured(cs) ==
    [c \in Goroutines |->
        IF cs[c].pc \in {"idle", "returned"} THEN IdleCall
        ELSE [cs[c] EXCEPT !.stale = TRUE]]

(* What is kept of a call that has returned: nothing of one that saw a *)
(* reconfiguration.                                                    *)
Returned(call) ==
    IF call.stale THEN IdleCall ELSE [call EXCEPT !.pc = "returned"]

(* initialize, up to the writers: the config file is merged in, and the *)
(* flags, the filters and the date/time format are worked out from the  *)
(* merged configuration.                                                *)
compileConfig(env, file) ==
    LET r   == updateConfigFromFile(env, file)
        cfg == r.config
    IN  [panic          |-> r.panic,
         config         |-> cfg,
         showCallerInfo |-> isTrueBoolString(cfg.showCallerInfo),
         traceSpec      |-> fromString(newFilterSpec, cfg.traceLevel, TRUE,
                                       noTraceOutput),
         logSpec        |-> fromString(newFilterSpec, cfg.logLevel, FALSE,
                                       levelInfo),
         dateTimeFormat |-> dateTimeFormat(cfg),
         stream         |-> selectStream(cfg)]

(* compileConfig on the environments and config files drawn, worked out *)
(* once.                                                                *)
CompiledTable ==
    {<<in, compileConfig(in[1], in[2])>> : in \in MainEnvConfigs \X MainConfigFiles}

Compiled(env, file) == (CHOOSE p \in CompiledTable : p[1] = <<env, file>>)[2]

(* initialize(config): the globals are set from the merged configuration. *)
(* The config file and whether the log file opens are the file system's.  *)
(* The panic of the config scan ends the process.                         *)
Initialize(env, file, opens) ==
    /\ ~crashed
    /\ settingConfFile' = confFileName(env)
    /\ LET r   == Compiled(env, file)
           cfg == r.config
       IN  IF r.panic
           THEN /\ crashed' = TRUE
                /\ UNCHANGED <<settingShowCallerInfo, settingDateTimeFormat,
                               logWriterStream, logWriterFile, logFilterSpec,
                               traceFilterSpec, lastReconf, calls>>
           ELSE /\ settingShowCallerInfo' = r.showCallerInfo
                /\ traceFilterSpec' = r.traceSpec
                /\ logFilterSpec' = r.logSpec
                /\ settingDateTimeFormat' = r.dateTimeFormat
                /\ logWriterStream' = r.stream
                /\ logWriterFile' = openLogFile(cfg, opens, logWriterFile)
                /\ lastReconf' = [op |-> "initialize", writer |-> "nil",
                                  traceLevel |-> cfg.traceLevel,
                                  openFailed |-> cfg.logFile # <<>> /\ ~opens,
                                  kept |-> KeptSettings', after |-> globalVars']
                /\ calls' = Reconfigured(calls)
                /\ UNCHANGED crashed
    /\ UNCHANGED <<filterVars, scanVars>>

(* SetOutput with the file writer left as it is *)
SetOutput_KeepsFile(writer) ==
    /\ ~crashed
    /\ lastReconf.op # "none"
    /\ logWriterStream' = writer
    /\ UNCHANGED <<settingShowCallerInfo, settingDateTimeFormat, settingConfFile,
                   logWriterFile, logFilterSpec, traceFilterSpec, crashed,
                   filterVars, scanVars>>
    /\ lastReconf' = [op |-> "SetOutput", writer |-> writer,
                      traceLevel |-> lastReconf.traceLevel, openFailed |-> FALSE,
                      kept |-> KeptSettings, after |-> globalVars']
    /\ calls' = Reconfigured(calls)

(* SetOutput(writer) *)
SetOutput(writer) ==
    /\ ~crashed
    /\ lastReconf.op # "none"
    /\ logWriterStream' = writer
    /\ logWriterFile' = <<>>
    /\ UNCHANGED <<settingShowCallerInfo, settingDateTimeFormat, settingConfFile,
                   logFilterSpec, traceFilterSpec, crashed, filterVars, scanVars>>
    /\ lastReconf' = [op |-> "SetOutput", writer |-> writer,
                      traceLevel |-> lastReconf.traceLevel, openFailed |-> FALSE,
                      kept |-> KeptSettings, after |-> globalVars']
    /\ calls' = Reconfigured(calls)

CallReady(c) ==
    /\ ~crashed
    /\ lastReconf.op # "none"
    /\ calls[c].pc \in {"idle", "returned"}

(* Critical .. Debug and their f forms: basicLog(level, notATrace, ...) *)
CallLog(c, level, path) ==
    /\ CallReady(c)
    /\ calls' = [calls EXCEPT ![c] =
           [IdleCall EXCEPT !.pc = "decide", !.logLevel = level, !.path = path]]
    /\ UNCHANGED <<globalVars, crashed, lastReconf, filterVars, scanVars>>

(* Trace and Tracef: nothing is done when there are no trace filters; *)
(* otherwise basicLog(levelTrace, traceLevel, ...)                     *)
CallTrace(c, traceLevel, path) ==
    /\ CallReady(c)
    /\ calls' = [calls EXCEPT ![c] =
           IF Len(traceFilterSpec.filters) > 0
           THEN [IdleCall EXCEPT !.pc = "decide", !.logLevel = levelTrace,
                                 !.traceLevel = traceLevel, !.path = path]
           ELSE [IdleCall EXCEPT !.pc = "returned", !.logLevel = levelTrace,
                                 !.traceLevel = traceLevel, !.path = path]]
    /\ UNCHANGED <<globalVars, crashed, lastReconf, filterVars, scanVars>>

(* basicLog: the caller is resolved and the filters are asked *)
Decide(c) ==
    /\ ~crashed
    /\ calls[c].pc = "decide"
    /\ LET ok == allowLog(calls[c].logLevel, calls[c].traceLevel,
                          moduleAndFileName(calls[c].path),
                          logFilterSpec, traceFilterSpec)
       IN  calls' = [calls EXCEPT ![c] =
               IF ok THEN [@ EXCEPT !.allowLog = TRUE, !.pc = "stream"]
               ELSE Returned(@)]
    /\ UNCHANGED <<globalVars, crashed, lastReconf, filterVars, scanVars>>

(* basicLog: the line is assembled and printed to the stream writer, *)
(* if there is one.                                                  *)
WriteStream(c) ==
    /\ ~crashed
    /\ calls[c].pc = "stream"
    /\ calls' = [calls EXCEPT ![c].wroteStream = logWriterStream,
                              ![c].pc = "file"]
    /\ UNCHANGED <<globalVars, crashed, lastReconf, filterVars, scanVars>>

(* WriteFile with the file writer dropped once it has been written to *)
WriteFile_DropsWriter(c) ==
    /\ ~crashed
    /\ calls[c].pc = "file"
    /\ calls' = [calls EXCEPT ![c] =
           Returned([@ EXCEPT !.wroteFile = logWriterFile])]
    /\ logWriterFile' = <<>>
    /\ UNCHANGED <<settingShowCallerInfo, settingDateTimeFormat, settingConfFile,
                   logWriterStream, logFilterSpec, traceFilterSpec,
                   crashed, lastReconf, filterVars, scanVars>>

(* basicLog: the line is printed to the file writer, if there is one *)
WriteFile(c) ==
    /\ ~crashed
    /\ calls[c].pc = "file"
    /\ calls' = [calls EXCEPT ![c] =
           Returned([@ EXCEPT !.wroteFile = logWriterFile])]
    /\ UNCHANGED <<globalVars, crashed, lastReconf, filterVars, scanVars>>

---------------------------------------------------------------------------
(* The specifications *)

NoConfig == [f \in ConfigFields |-> <<>>]

InitFilterVars ==
    /\ specInput = [s |-> <<>>, isTraceLevels |-> FALSE,
                    globalLevelDefault |-> levelInfo, built |-> FALSE]
    /\ spec = newFilterSpec
    /\ matchResult = NoMatchResult

InitScanVars ==
    /\ envConfig = NoConfig
    /\ config = NoConfig
    /\ prevConfig = NoConfig
    /\ confLines = [opens |-> FALSE, lines |-> <<>>]
    /\ lineNo = 0
    /\ scanPc = "idle"

(* The package before init() has run: every global has its zero value *)
InitProgram ==
    /\ settingShowCallerInfo = FALSE
    /\ settingDateTimeFormat = <<>>
    /\ settingConfFile = <<>>
    /\ logWriterStream = "nil"
    /\ logWriterFile = <<>>
    /\ logFilterSpec = newFilterSpec
    /\ traceFilterSpec = newFilterSpec
    /\ crashed = FALSE
    /\ lastReconf = [op |-> "none", writer |-> "nil", traceLevel |-> <<>>,
                     openFailed |-> FALSE, kept |-> KeptSettings,
                     after |-> globalVars]
    /\ calls = [c \in Goroutines |-> IdleCall]

(* The program *)
Init == InitFilterVars /\ InitScanVars /\ InitProgram

Next ==
    \/ \E env \in MainEnvConfigs, file \in MainConfigFiles, opens \in BOOLEAN :
          Initialize(env, file, opens)
    \/ \E writer \in Writers : SetOutput(writer)
    \/ \E c \in Goroutines, level \in CallLevels, path \in CallerPaths :
          CallLog(c, level, path)
    \/ \E c \in Goroutines, depth \in -1..MaxTraceDepth, path \in CallerPaths :
          CallTrace(c, depth, path)
    \/ \E c \in Goroutines : Decide(c)
    \/ \E c \in Goroutines : WriteStream(c)
    \/ \E c \in Goroutines : WriteFile(c)

Spec == Init /\ [][Next]_vars

(* fromString and matchfilters on the level strings drawn *)
InitFilter ==
    /\ specInput \in FromStringInputs
    /\ spec = newFilterSpec
    /\ matchResult = NoMatchResult
    /\ InitScanVars
    /\ InitProgram

NextFilter == BuildFilterSpec \/ QueryFilterSpec

SpecFilter == InitFilter /\ [][NextFilter]_vars

(* updateConfigFromFile on the environments and config files drawn *)
InitScan ==
    /\ envConfig \in EnvConfigs
    /\ config = envConfig
    /\ prevConfig = envConfig
    /\ confLines \in ConfigFiles
    /\ lineNo = 0
    /\ scanPc = "idle"
    /\ InitFilterVars
    /\ InitProgram

NextScan == ScanOpen \/ ScanLine \/ ScanEnd

SpecScan == InitScan /\ [][NextScan]_vars

---------------------------------------------------------------------------
(* What a level string says, read off the string itself *)

(* The level names a user may give on the log axis: NONE .. DEBUG *)
LogLevelNames == {levelStrings[l] : l \in levelNone..levelDebug}

IsLevelToken(tok, isTraceLevels) ==
    IF isTraceLevels THEN Atoi(tok).ok ELSE ToUpper(tok) \in LogLevelNames

LevelOfToken(tok, isTraceLevels) ==
    IF isTraceLevels THEN Atoi(tok).value
    ELSE CHOOSE l \in levelNone..levelDebug : levelStrings[l] = ToUpper(tok)

(* A valid pattern=level field *)
IsPatternedField(f, isTraceLevels) ==
    LET parts == Split(f, "=")
    IN  Len(parts) = 2 /\ parts[1] # <<>> /\ IsLevelToken(parts[2], isTraceLevels)

(* A valid field without a pattern: level, or =level *)
IsGlobalField(f, isTraceLevels) ==
    LET parts == Split(f, "=")
    IN  \/ Len(parts) = 1 /\ IsLevelToken(parts[1], isTraceLevels)
        \/ Len(parts) = 2 /\ parts[1] = <<>> /\ IsLevelToken(parts[2], isTraceLevels)

(* The level token of a field of one or two tokens *)
LevelTokenOf(f) == LET parts == Split(f, "=") IN parts[Len(parts)]

PatternedFields(s, isTraceLevels) ==
    LET Test(f) == IsPatternedField(f, isTraceLevels)
    IN  SelectSeq(Split(s, ","), Test)

GlobalFields(s, isTraceLevels) ==
    LET Test(f) == IsGlobalField(f, isTraceLevels)
    IN  SelectSeq(Split(s, ","), Test)

(* The global level a string resolves to: that of its last valid field *)
(* without a pattern, or the default.                                  *)
ResolvedGlobal(s, isTraceLevels, default) ==
    LET g == GlobalFields(s, isTraceLevels)
    IN  IF g = <<>> THEN default
        ELSE LevelOfToken(LevelTokenOf(g[Len(g)]), isTraceLevels)

(* The rules a string stands for: its patterned fields in their order, *)
(* then the global rule, which the trace axis leaves out when it is    *)
(* noTraceOutput.                                                      *)
ExpectedFilters(s, isTraceLevels, default) ==
    LET p == PatternedFields(s, isTraceLevels)
        g == ResolvedGlobal(s, isTraceLevels, default)
    IN  [i \in 1..Len(p) |->
            [Pattern |-> Split(p[i], "=")[1],
             Level   |-> LevelOfToken(LevelTokenOf(p[i]), isTraceLevels)]]
        \o (IF ~isTraceLevels \/ g # noTraceOutput
            THEN <<[Pattern |-> <<>>, Level |-> g]>>
            ELSE <<>>)

(* The rules of a filterSpec whose pattern matches the file *)
MatchingRules(sp, filename) ==
    {i \in 1..Len(sp.filters) :
        \/ sp.filters[i].Pattern = <<>>
        \/ Match(sp.filters[i].Pattern, Base(filename))}

---------------------------------------------------------------------------
(* Claims on fromString and matchfilters, under SpecFilter *)

(* C1: matchfilters answers with the level test (level <= threshold) of *)
(* the first rule, in sequence order, whose pattern matches the file,   *)
(* also when that test fails and a later rule would have passed; it     *)
(* answers false when no rule's pattern matches.                        *)
C1_FirstMatchingPatternWins ==
    matchResult.asked =>
        LET hits == MatchingRules(spec, matchResult.filename)
        IN  IF hits = {} THEN matchResult.result = FALSE
            ELSE LET first == CHOOSE i \in hits : \A j \in hits : i <= j
                 IN  matchResult.result =
                         (matchResult.level <= spec.filters[first].Level)

(* A query the first matching rule rejects though a later matching rule *)
(* would have accepted it.                                              *)
C1_Witness ==
    /\ matchResult.asked
    /\ ~matchResult.result
    /\ \E i, j \in MatchingRules(spec, matchResult.filename) :
          /\ i < j
          /\ matchResult.level > spec.filters[i].Level
          /\ matchResult.level <= spec.filters[j].Level

(* C2: the rules fromString builds on a fresh filterSpec are the patterned *)
(* rules of the valid pattern=level fields in their order, followed by at  *)
(* most one rule without a pattern, which is last and holds the level of   *)
(* the last valid field without a pattern (level or =level), or the        *)
(* default; no rule with an empty pattern comes before another rule.       *)
C2_GlobalRuleLast ==
    specInput.built =>
        /\ spec.filters = ExpectedFilters(specInput.s, specInput.isTraceLevels,
                                          specInput.globalLevelDefault)
        /\ \A k \in 1..(Len(spec.filters) - 1) : spec.filters[k].Pattern # <<>>

(* A string whose global field stands before a patterned field, built *)
(* into rules that end with the global rule.                          *)
C2_Witness ==
    /\ specInput.built
    /\ LET fields == Split(specInput.s, ",")
       IN  \E i, j \in 1..Len(fields) :
              /\ i < j
              /\ IsGlobalField(fields[i], specInput.isTraceLevels)
              /\ IsPatternedField(fields[j], specInput.isTraceLevels)
    /\ Len(spec.filters) >= 2
    /\ spec.filters[Len(spec.filters)].Pattern = <<>>

(* A field of one or two tokens whose level token is TRACE in any case, *)
(* or no level name at all.                                             *)
IsRefusedLogField(f) ==
    /\ Len(Split(f, "=")) \in {1, 2}
    /\ ToUpper(LevelTokenOf(f)) \notin LogLevelNames

(* C5: on the log axis a field whose level is TRACE (in any case) or no *)
(* known level name adds no rule and leaves the global level alone: the *)
(* rules are those of the string without such fields. Every threshold   *)
(* is in NONE..DEBUG, and a query at level TRACE is rejected.           *)
C5_TraceNameRefused ==
    (specInput.built /\ ~specInput.isTraceLevels) =>
        /\ LET Kept(f) == ~IsRefusedLogField(f)
           IN  spec = fromString(newFilterSpec,
                                 Join(SelectSeq(Split(specInput.s, ","), Kept)),
                                 FALSE, specInput.globalLevelDefault)
        /\ \A k \in 1..Len(spec.filters) :
              spec.filters[k].Level \in levelNone..levelDebug
        /\ (matchResult.asked /\ matchResult.level = levelTrace)
              => ~matchResult.result

(* A log-axis string with a global TRACE field and a patterned TRACE *)
(* field, asked at level TRACE.                                      *)
C5_Witness ==
    /\ specInput.built
    /\ ~specInput.isTraceLevels
    /\ LET fields == Split(specInput.s, ",")
       IN  \E i, j \in 1..Len(fields) :
              /\ Len(Split(fields[i], "=")) = 1
              /\ Len(Split(fields[j], "=")) = 2
              /\ ToUpper(LevelTokenOf(fields[i])) = levelStrings[levelTrace]
              /\ ToUpper(LevelTokenOf(fields[j])) = levelStrings[levelTrace]
    /\ matchResult.asked
    /\ matchResult.level = levelTrace
    /\ ~matchResult.result

---------------------------------------------------------------------------
(* Claims on updateConfigFromFile, under SpecScan *)

(* What a line of the config file says, read off the line itself *)
LineHasSetting(text) == IndexOf(TrimSpace(text), "=") > 0

LineName(text) ==
    LET line == TrimSpace(text)
    IN  TrimSpace(SubSeq(line, 1, IndexOf(line, "=") - 1))

LineValue(text) ==
    LET line == TrimSpace(text)
    IN  TrimSpace(SubSeq(line, IndexOf(line, "=") + 1, Len(line)))

(* A line that sets field f, without the '!' marker *)
IsPlainLineFor(text, f) ==
    LineHasSetting(text) /\ LineName(text) = SettingName[f]

(* A line that sets field f and is marked with '!' *)
IsMarkedLineFor(text, f) ==
    LineHasSetting(text) /\ LineName(text) = <<"!">> \o SettingName[f]

(* The lines scanned so far *)
ScannedLines == SubSeq(confLines.lines, 1, lineNo)

(* A field the environment set and no scanned line marked keeps the *)
(* environment's value.                                             *)
EnvValueKept ==
    \A f \in ConfigFields :
        (/\ envConfig[f] # <<>>
         /\ \A i \in 1..lineNo : ~IsMarkedLineFor(confLines.lines[i], f))
        => config[f] = envConfig[f]

(* The last line scanned *)
LastLine == confLines.lines[lineNo]

(* The last pass of the scan changed a field only on a line for that *)
(* field that is marked or found the field empty.                    *)
ChangedOnlyIfNeeded ==
    \A f \in ConfigFields :
        config[f] # prevConfig[f] =>
            \/ IsMarkedLineFor(LastLine, f)
            \/ IsPlainLineFor(LastLine, f) /\ prevConfig[f] = <<>>

(* The value a line gives field f: as written, upper-cased for the log *)
(* stream.                                                             *)
ValueStored(text, f) ==
    IF f = "logStream" THEN ToUpper(LineValue(text)) ELSE LineValue(text)

C4_NoFatalError == scanPc # "panic"

---------------------------------------------------------------------------
(* Claims on initialize, SetOutput and the emission calls, under Spec *)

(* The calls that began after the last reconfiguration returned *)
FreshCalls == {c \in Goroutines : calls[c].pc # "idle" /\ ~calls[c].stale}

(* The fresh calls that are past basicLog's test *)
DecidedCalls == {c \in FreshCalls : calls[c].pc \in {"stream", "file", "returned"}}

(* Whether the call is one of Trace or Tracef *)
IsTraceCall(call) == call.logLevel = levelTrace

(* The decision of the call were it the only one running, under the *)
(* settings as they are.                                            *)
AloneDecision(call) ==
    /\ IsTraceCall(call) => Len(traceFilterSpec.filters) > 0
    /\ allowLog(call.logLevel, call.traceLevel, moduleAndFileName(call.path),
                logFilterSpec, traceFilterSpec)

(* The filterSpec basicLog asks for the call *)
ConsultedSpec(call) ==
    IF call.traceLevel = notATrace THEN logFilterSpec ELSE traceFilterSpec

(* The level basicLog asks the filters about *)
ConsultedLevel(call) ==
    IF call.traceLevel = notATrace THEN call.logLevel ELSE call.traceLevel

(* The caller paths with the file name of path, in whatever directory *)
SameBaseName(path) == {q \in CallerPaths : Base(q) = Base(path)}

(* C6: the trace filterSpec initialize builds has no rules exactly when  *)
(* the trace level string resolves to the global level noTraceOutput and *)
(* has no valid patterned field; a filterSpec without rules refuses      *)
(* every query, and no Trace call made in that state is emitted; the log *)
(* filterSpec always has a rule.                                         *)
C6_TraceDisabledFastPath ==
    lastReconf.op # "none" =>
        /\ (Len(traceFilterSpec.filters) = 0) <=>
              /\ ResolvedGlobal(lastReconf.traceLevel, TRUE, noTraceOutput)
                    = noTraceOutput
              /\ PatternedFields(lastReconf.traceLevel, TRUE) = <<>>
        /\ Len(logFilterSpec.filters) > 0
        /\ Len(traceFilterSpec.filters) = 0 =>
              /\ \A path \in CallerPaths, depth \in -1..MaxDepth :
                    ~matchfilters(traceFilterSpec, moduleAndFileName(path), depth)
              /\ \A c \in FreshCalls :
                    IsTraceCall(calls[c]) =>
                        /\ calls[c].pc \notin {"stream", "file"}
                        /\ ~calls[c].allowLog
                        /\ calls[c].wroteStream = "nil"
                        /\ calls[c].wroteFile = <<>>

(* A Trace call that returned with nothing written, the trace level *)
(* string naming -1 and holding no valid patterned field.           *)
C6_Witness ==
    /\ lastReconf.op = "initialize"
    /\ lastReconf.traceLevel # <<>>
    /\ Len(traceFilterSpec.filters) = 0
    /\ \E c \in FreshCalls :
          /\ IsTraceCall(calls[c])
          /\ calls[c].pc = "returned"
          /\ calls[c].wroteStream = "nil"

(* C7: the filters are asked with module/file, but a rule tests its     *)
(* pattern against the file's base name only: callers whose files have  *)
(* the same base name get the same pattern-match result from every rule *)
(* and the same decision, whatever their directories.                   *)
C7_BaseNameOnly ==
    \A c \in DecidedCalls :
        \A q \in SameBaseName(calls[c].path) :
            LET call  == calls[c]
                sp    == ConsultedSpec(call)
                level == ConsultedLevel(call)
            IN  /\ \A i \in 1..Len(sp.filters) :
                      match(sp.filters[i], moduleAndFileName(call.path), level).matched
                        = match(sp.filters[i], moduleAndFileName(q), level).matched
                /\ call.allowLog = AloneDecision([call EXCEPT !.path = q])

(* A call from m/a.g decided under a log filterSpec that holds a rule *)
(* for m/a.g, with a.g in another directory among the callers.        *)
C7_Witness ==
    \E c \in DecidedCalls :
        /\ calls[c].traceLevel = notATrace
        /\ \E i \in 1..Len(logFilterSpec.filters) :
              logFilterSpec.filters[i].Pattern = moduleAndFileName(calls[c].path)
        /\ \E q \in SameBaseName(calls[c].path) :
              moduleAndFileName(q) # moduleAndFileName(calls[c].path)

(* C7, as stated: a rule whose pattern is the module/file of a decided *)
(* call tells that caller from the callers of the same file name in    *)
(* another directory.                                                  *)
C7_Original ==
    \A c \in DecidedCalls :
        LET call  == calls[c]
            sp    == ConsultedSpec(call)
            level == ConsultedLevel(call)
        IN  \A i \in 1..Len(sp.filters) :
                sp.filters[i].Pattern = moduleAndFileName(call.path) =>
                    \A q \in SameBaseName(call.path) :
                        moduleAndFileName(q) # moduleAndFileName(call.path) =>
                            match(sp.filters[i], moduleAndFileName(call.path), level).matched
                              # match(sp.filters[i], moduleAndFileName(q), level).matched

(* C8: after SetOutput(writer) the stream writer is writer and there is *)
(* no file writer; the filterSpecs, the date/time format and the caller *)
(* info flag are as SetOutput found them; a message accepted after it   *)
(* is written to writer and to nothing else.                            *)
C8_SetOutputRedirects ==
    lastReconf.op = "SetOutput" =>
        /\ logWriterStream = lastReconf.writer
        /\ logWriterFile = <<>>
        /\ KeptSettings = lastReconf.kept
        /\ \A c \in DecidedCalls :
              /\ (calls[c].pc \in {"file", "returned"} /\ calls[c].allowLog)
                    => calls[c].wroteStream = lastReconf.writer
              /\ calls[c].wroteFile = <<>>

(* A message accepted and written after SetOutput, under filters with a *)
(* patterned rule.                                                      *)
C8_Witness ==
    /\ lastReconf.op = "SetOutput"
    /\ Len(logFilterSpec.filters) > 1
    /\ \E c \in DecidedCalls :
          /\ calls[c].pc = "returned"
          /\ calls[c].allowLog
          /\ calls[c].wroteStream = lastReconf.writer

(* C9: the globals are as the last initialize or SetOutput left them,   *)
(* so no emission call has written one; and the decision and the        *)
(* writers of each call made since are those of the call running alone. *)
C9_EmissionsIndependent ==
    (lastReconf.op # "none" /\ ~crashed) =>
        /\ globalVars = lastReconf.after
        /\ \A c \in DecidedCalls :
              /\ calls[c].allowLog = AloneDecision(calls[c])
              /\ (calls[c].pc \in {"file", "returned"}) =>
                    calls[c].wroteStream =
                        (IF calls[c].allowLog THEN logWriterStream ELSE "nil")
              /\ calls[c].pc = "returned" =>
                    calls[c].wroteFile =
                        (IF calls[c].allowLog THEN logWriterFile ELSE <<>>)

(* One call has written to the file writer and returned while another, *)
(* accepted as well, is still to write to it.                          *)
C9_Witness ==
    \E c1, c2 \in DecidedCalls :
        /\ c1 # c2
        /\ calls[c1].pc = "returned"
        /\ calls[c1].allowLog
        /\ calls[c1].wroteFile # <<>>
        /\ calls[c2].pc = "file"

(* C10: after an initialize whose log file could not be opened there is *)
(* no file writer, and no message accepted since was written to a file. *)
C10_FailedOpenDisablesFile ==
    (lastReconf.op = "initialize" /\ lastReconf.openFailed) =>
        /\ logWriterFile = <<>>
        /\ \A c \in DecidedCalls : calls[c].wroteFile = <<>>

(* Whether the filterSpec accepts (file, level): the level is at most *)
(* the threshold of the first rule whose pattern matches the file.    *)
Accepts(sp, filename, level) ==
    LET hits == MatchingRules(sp, filename)
    IN  /\ hits # {}
        /\ level <= sp.filters[CHOOSE i \in hits : \A j \in hits : i <= j].Level

(* C11: a Trace call of any depth is emitted exactly when the trace     *)
(* filterSpec accepts its file and depth, whatever the log filterSpec   *)
(* holds; a call of Critical .. Debug is emitted exactly when the log   *)
(* filterSpec accepts its file and level, whatever the trace filterSpec *)
(* holds.                                                               *)
C11_AxisSelection ==
    \A c \in DecidedCalls :
        LET call == calls[c]
            name == moduleAndFileName(call.path)
        IN  IF IsTraceCall(call)
            THEN call.allowLog = Accepts(traceFilterSpec, name, call.traceLevel)
            ELSE call.allowLog = Accepts(logFilterSpec, name, call.logLevel)

===========================================================================
